---- MODULE Spec2Model ----
(***************************************************************************)
(* Seal browser extension: the background service worker (message router,  *)
(* credential store, API client) of src/App/app/api/auth/login/route.ts,   *)
(* and the popup (screens, login, .seal file check) of src/unnamed/part_000.*)
(*                                                                         *)
(* One step of the model is one run of the service worker's event loop:    *)
(* the arrival of a message (the listener runs up to its first await) or   *)
(* the resumption of a suspended handler at the completion of the thing it *)
(* awaits.  chrome.storage.local applies the operations of the worker in   *)
(* the order they are issued, so a storage operation takes effect in the   *)
(* step that issues it and the awaiting code resumes in a later step.      *)
(* The popup runs its own event loop: a step of the popup is one event     *)
(* listener up to its first await, or the resumption of a suspended        *)
(* function.  The two exchange messages through chrome.runtime.sendMessage.*)
(***************************************************************************)
EXTENDS Naturals, Sequences, FiniteSets, Bags, TLC

VARIABLES
  store,   \* chrome.storage.local: the keys authToken and userEmail
  tasks,   \* bag of suspended handler invocations (request, position, locals)
  ev,      \* the step just taken: request, step name, effects so far, responses sent
  popup    \* the popup: its variables, screens, suspended functions and messages

vars == <<store, tasks, ev, popup>>

----------------------------------------------------------------------------
(* Bounds of the model *)

\* number of handler invocations that may be suspended at the same time
MaxInFlight == 2

\* number of functions of the popup that may be suspended at the same time
MaxPending == 2

\* number of user events (clicks, drops, submits) in a session of the popup
MaxClicks == 3

----------------------------------------------------------------------------
(* Values *)

\* a key that is not in the store, a field that is not in a message (undefined)
Absent == "absent"

Tokens == {"t1", "t2"}
Emails == {"a@x.com", "b@x.com"}

\* JavaScript truthiness of a string-or-undefined value
Truthy(v) == v # Absent /\ v # ""

\* r.f for an object r: undefined when r has no field f
Field(r, f) == IF f \in DOMAIN r THEN r[f] ELSE Absent

\* a || b
OrElse(a, b) == IF Truthy(a) THEN a ELSE b

----------------------------------------------------------------------------
(* Credential store *)

\* getStoredAuth: resolve(data || {})
getStoredAuth(st) == [authToken |-> st.authToken, userEmail |-> st.userEmail]

\* storeAuth: chrome.storage.local.set({authToken: token, userEmail: email})
storeAuth(token, email) == [authToken |-> token, userEmail |-> email]

\* clearAuth: chrome.storage.local.remove(['authToken', 'userEmail'])
clearAuth == [authToken |-> Absent, userEmail |-> Absent]

\* authHeaders: the Authorization header is set only for a truthy token
authHeaders(st) ==
  IF Truthy(getStoredAuth(st).authToken)
  THEN [ContentType |-> "application/json",
        Authorization |-> "Bearer " \o getStoredAuth(st).authToken]
  ELSE [ContentType |-> "application/json"]

----------------------------------------------------------------------------
(* Steps and tasks *)

\* a suspended handler invocation: where it waits, its locals, and the storage
\* and network operations it has issued so far ("get", "set", "clear", "net")
Task(req, pc, loc, ops) == [req |-> req, pc |-> pc, loc |-> loc, ops |-> ops]

\* the record of a step: at is "listener" for the arrival of a message and
\* "resume" for a continuation, loc and ops are the invocation's locals and
\* operations at the end of the step, resps the calls of sendResponse in the step
Event(req, at, step, loc, ops, resps) ==
  [req |-> req, at |-> at, step |-> step, loc |-> loc, ops |-> ops, resps |-> resps]

NoEvent == Event([chan |-> "none"], "init", "init", <<>>, <<>>, <<>>)

InFlight == BagToSet(tasks)

\* the invocation reaches an await
Suspend(t) ==
  /\ BagCardinality(tasks) < MaxInFlight
  /\ tasks' = tasks (+) SetToBag({t})
  /\ ev' = Event(t.req, "listener", t.pc, t.loc, t.ops, <<>>)

\* the listener answers before it returns
Answer(req, step, value) ==
  /\ ev' = Event(req, "listener", step, <<>>, <<>>, << value >>)
  /\ UNCHANGED tasks

\* the invocation t goes on to its next await, as u
Resume(t, u) ==
  /\ tasks' = (tasks (-) SetToBag({t})) (+) SetToBag({u})
  /\ ev' = Event(u.req, "resume", u.pc, u.loc, u.ops, <<>>)

\* the invocation t ends and the listener's continuation calls sendResponse(value)
Respond(t, step, loc, value) ==
  /\ tasks' = tasks (-) SetToBag({t})
  /\ ev' = Event(t.req, "resume", step, loc, t.ops, << value >>)

----------------------------------------------------------------------------
(* External channel: chrome.runtime.onMessageExternal *)

allowedOrigins == {"https://seal.email", "http://localhost:3000"}

\* the default port of a scheme, which URL.origin leaves out
DefaultPort(scheme) == IF scheme = "https" THEN "443" ELSE "80"

\* new URL(url).origin
Origin(url) ==
  url.scheme \o "://" \o url.host \o
    (IF url.port = "" \/ url.port = DefaultPort(url.scheme)
     THEN "" ELSE ":" \o url.port)

\* sender.url ? new URL(sender.url).origin : ''
senderOrigin(sender) ==
  IF "url" \in DOMAIN sender THEN Origin(sender.url) ELSE ""

\* a gate that compares the host name alone
OriginAllowed_hostOnly(sender) ==
  "url" \in DOMAIN sender /\ sender.url.host \in {"seal.email", "localhost"}

\* allowedOrigins.includes(senderOrigin)
OriginAllowed(sender) == senderOrigin(sender) \in allowedOrigins

Url(scheme, host, port, path) ==
  [scheme |-> scheme, host |-> host, port |-> port, path |-> path]

\* senders of external messages: web pages, and a sender without a URL
Senders ==
  { [id |-> "other-extension"],
    [url |-> Url("https", "seal.email", "", "/login")],
    [url |-> Url("https", "seal.email", "443", "/auth/callback")],
    [url |-> Url("http", "localhost", "3000", "/login")],
    [url |-> Url("http", "seal.email", "", "/login")],
    [url |-> Url("https", "seal.email.evil.example", "", "/login")],
    [url |-> Url("http", "localhost", "3001", "/")] }

\* the production site and one page that is not allow-listed
CoreSenders ==
  { [url |-> Url("https", "seal.email", "", "/login")],
    [url |-> Url("https", "seal.email.evil.example", "", "/login")] }

ExternalMessages ==
  { [type |-> "SEAL_AUTH_TOKEN", token |-> "t1", email |-> "a@x.com"],
    [type |-> "SEAL_AUTH_TOKEN", token |-> "t2", email |-> "b@x.com"],
    [type |-> "SEAL_AUTH_TOKEN", email |-> "a@x.com"],
    [type |-> "SEAL_AUTH_TOKEN", token |-> "t1"],
    [type |-> "SEAL_AUTH_TOKEN", token |-> "", email |-> "a@x.com"],
    [type |-> "SEAL_AUTH_TOKEN"],
    [type |-> "SEAL_LOGOUT"],
    [type |-> "SEAL_PING"],
    [type |-> "SEAL_HELLO"] }

\* the messages that reach the credential store, and one that is refused
CoreMessages ==
  { [type |-> "SEAL_AUTH_TOKEN", token |-> "t1", email |-> "a@x.com"],
    [type |-> "SEAL_AUTH_TOKEN", token |-> "t1"],
    [type |-> "SEAL_LOGOUT"] }

ExternalRequest(sender, message) ==
  [chan |-> "external", sender |-> sender, message |-> message]

\* chrome.runtime.getManifest().version
ManifestVersion == "1.0.0"

\* a branch that tests token || email
HandoffComplete_either(message) ==
  Truthy(Field(message, "token")) \/ Truthy(Field(message, "email"))

\* the SEAL_AUTH_TOKEN branch accepts the message: if (token && email)
HandoffComplete(message) ==
  Truthy(Field(message, "token")) /\ Truthy(Field(message, "email"))

\* the listener, up to its return
ExternalMessage(sender, message) ==
  LET req == ExternalRequest(sender, message) IN
  IF ~OriginAllowed(sender)
  THEN /\ Answer(req, "ext.reject", [error |-> "Unauthorized origin"])
       /\ UNCHANGED store
  ELSE
    CASE message.type = "SEAL_AUTH_TOKEN" ->
           IF HandoffComplete(message)
           THEN /\ store' = storeAuth(Field(message, "token"), Field(message, "email"))
                /\ Suspend(Task(req, "ext.token.store", <<>>, <<"set">>))
           ELSE /\ Answer(req, "ext.token.missing", [error |-> "Missing token or email"])
                /\ UNCHANGED store
      [] message.type = "SEAL_LOGOUT" ->
           /\ store' = clearAuth
           /\ Suspend(Task(req, "ext.logout.clear", <<>>, <<"clear">>))
      [] message.type = "SEAL_PING" ->
           /\ Answer(req, "ext.ping", [installed |-> TRUE, version |-> ManifestVersion])
           /\ UNCHANGED store
      [] OTHER ->
           /\ Answer(req, "ext.unknown", [error |-> "Unknown message type"])
           /\ UNCHANGED store

\* a continuation that logs and does not call sendResponse
ExternalStored_silent(t) ==
  /\ t.pc \in {"ext.token.store", "ext.logout.clear"}
  /\ tasks' = tasks (-) SetToBag({t})
  /\ ev' = Event(t.req, "resume", t.pc \o ".then", <<>>, t.ops, <<>>)
  /\ UNCHANGED store

\* storeAuth(...).then(() => sendResponse({success: true})); the same for clearAuth
ExternalStored(t) ==
  /\ t.pc \in {"ext.token.store", "ext.logout.clear"}
  /\ Respond(t, t.pc \o ".then", <<>>, [success |-> TRUE])
  /\ UNCHANGED store

----------------------------------------------------------------------------
(* Backend, as the API client sees it *)

\* err.message of a fetch that rejects, and of a response.json() that cannot parse
TransportError == "Failed to fetch"
BodyError == "Unexpected token < in JSON"

\* statuses of a response that is not ok
NotOkStatuses == {401, 500}

\* GET /auth/status: the bodies of a success response
StatusBodies ==
  { [authenticated |-> FALSE], [authenticated |-> TRUE] }
    \cup { [authenticated |-> TRUE, email |-> e] : e \in Emails }

\* POST /api/auth/login: status and JSON body
POST(email, password) ==
  IF ~Truthy(email) \/ ~Truthy(password)
  THEN { [status |-> 400, body |-> [error |-> "Email and password are required"]] }
  ELSE { [status |-> 500, body |-> [error |-> "Server configuration error"]],
         [status |-> 401, body |-> [error |-> "Invalid email or password"]],
         [status |-> 500, body |-> [error |-> "Internal server error"]] }
       \cup { [status |-> 200,
               body |-> [authenticated |-> TRUE, email |-> e, token |-> tk]]
              : e \in Emails, tk \in Tokens }

\* response.ok
Ok(status) == status >= 200 /\ status <= 299

----------------------------------------------------------------------------
(* Internal channel: chrome.runtime.onMessage and messageHandlers *)

InternalRequest(message) == [chan |-> "internal", message |-> message]

(* checkAuth *)

\* if (data.authenticated && data.email)
ServerConfirms(data) == data.authenticated /\ Truthy(Field(data, "email"))

\* if (stored.userEmail !== data.email)
NeedsReconcile(stored, data) == stored.userEmail # data.email

\* storeAuth(stored.authToken || '', data.email)
ReconcileWrite(stored, data) == storeAuth(OrElse(stored.authToken, ""), data.email)

\* messageHandlers.checkAuth -> checkAuth(), up to await authHeaders()
CheckAuthCall(req) ==
  /\ Suspend(Task(req, "checkAuth.authHeaders", [headers |-> authHeaders(store)],
                  <<"get">>))
  /\ UNCHANGED store

\* the headers are there: fetch(`${API_BASE}/auth/status`, ...) is issued
CheckAuthFetch(t) ==
  /\ t.pc = "checkAuth.authHeaders"
  /\ Resume(t, Task(t.req, "checkAuth.fetch", <<>>, t.ops \o <<"net">>))
  /\ UNCHANGED store

\* the fetch rejects, or response.json() throws: the catch block returns
CheckAuthFailed(t) ==
  /\ t.pc = "checkAuth.fetch"
  /\ \E msg \in {TransportError, BodyError} :
       Respond(t, "checkAuth.catch", [err |-> msg],
               [authenticated |-> FALSE, error |-> msg])
  /\ UNCHANGED store

\* a checkAuth that returns on a response that is not ok without clearAuth
CheckAuthNotOk_noClear(t) ==
  /\ t.pc = "checkAuth.fetch"
  /\ \E status \in NotOkStatuses :
       Resume(t, Task(t.req, "checkAuth.notOk.clearAuth", [status |-> status], t.ops))
  /\ UNCHANGED store

\* if (!response.ok) { await clearAuth(); ...
CheckAuthNotOk(t) ==
  /\ t.pc = "checkAuth.fetch"
  /\ \E status \in NotOkStatuses :
       Resume(t, Task(t.req, "checkAuth.notOk.clearAuth", [status |-> status],
                      t.ops \o <<"clear">>))
  /\ store' = clearAuth

\* a success response with body data: the branch on data.authenticated && data.email
CheckAuthOk(t) ==
  /\ t.pc = "checkAuth.fetch"
  /\ \E data \in StatusBodies :
       IF ServerConfirms(data)
       THEN /\ Resume(t, Task(t.req, "checkAuth.getStoredAuth",
                              [data |-> data, stored |-> getStoredAuth(store)],
                              t.ops \o <<"get">>))
            /\ UNCHANGED store
       ELSE /\ Resume(t, Task(t.req, "checkAuth.clearAuth", [data |-> data],
                              t.ops \o <<"clear">>))
            /\ store' = clearAuth

\* stored is there: reconcile the cached email, or return data at once
CheckAuthReconcile(t) ==
  /\ t.pc = "checkAuth.getStoredAuth"
  /\ IF NeedsReconcile(t.loc.stored, t.loc.data)
     THEN /\ Resume(t, Task(t.req, "checkAuth.storeAuth", t.loc, t.ops \o <<"set">>))
          /\ store' = ReconcileWrite(t.loc.stored, t.loc.data)
     ELSE /\ Respond(t, "checkAuth.return", t.loc, t.loc.data)
          /\ UNCHANGED store

\* the awaited clearAuth or storeAuth is done: return
CheckAuthReturn(t) ==
  /\ t.pc \in {"checkAuth.notOk.clearAuth", "checkAuth.clearAuth", "checkAuth.storeAuth"}
  /\ Respond(t, "checkAuth.return", t.loc,
             IF t.pc = "checkAuth.notOk.clearAuth"
             THEN [authenticated |-> FALSE] ELSE t.loc.data)
  /\ UNCHANGED store

(* loginWithCredentials *)

\* a validation that tests !email && !password
CredentialsMissing_both(message) ==
  ~Truthy(Field(message, "email")) /\ ~Truthy(Field(message, "password"))

\* if (!email || !password)
CredentialsMissing(message) ==
  ~Truthy(Field(message, "email")) \/ ~Truthy(Field(message, "password"))

\* a login that does not test the response before storing
LoginRefused_unchecked(status, data) == FALSE

\* if (!response.ok || !data.authenticated)
LoginRefused(status, data) == ~Ok(status) \/ ~(Field(data, "authenticated") = TRUE)

\* up to await fetch(`${API_BASE}/auth/login`, ...)
LoginCall(req) ==
  IF CredentialsMissing(req.message)
  THEN /\ Answer(req, "login.invalid",
                 [authenticated |-> FALSE, error |-> "Email and password are required"])
       /\ UNCHANGED store
  ELSE /\ Suspend(Task(req, "login.fetch",
                       [email |-> Field(req.message, "email"),
                        password |-> Field(req.message, "password")],
                       <<"net">>))
       /\ UNCHANGED store

\* the fetch rejects, or response.json() throws: the catch block returns
LoginFailed(t) ==
  /\ t.pc = "login.fetch"
  /\ \E msg \in {TransportError, BodyError} :
       Respond(t, "login.catch", [err |-> msg], [authenticated |-> FALSE, error |-> msg])
  /\ UNCHANGED store

\* the response and its body are there
LoginResponse(t) ==
  /\ t.pc = "login.fetch"
  /\ \E response \in POST(t.loc.email, t.loc.password) :
       LET loc == [status |-> response.status, data |-> response.body] IN
       IF LoginRefused(response.status, response.body)
       THEN /\ Respond(t, "login.refused", loc,
                       [authenticated |-> FALSE,
                        error |-> OrElse(Field(response.body, "error"), "Login failed")])
            /\ UNCHANGED store
       ELSE /\ Resume(t, Task(t.req, "login.storeAuth", loc, t.ops \o <<"set">>))
            /\ store' = storeAuth(Field(response.body, "token"),
                                  Field(response.body, "email"))

\* await storeAuth is done
LoginReturn(t) ==
  /\ t.pc = "login.storeAuth"
  /\ Respond(t, "login.return", t.loc,
             [authenticated |-> TRUE, email |-> Field(t.loc.data, "email")])
  /\ UNCHANGED store

(* logout *)

LogoutCall(req) ==
  /\ Suspend(Task(req, "logout.clearAuth", <<>>, <<"clear">>))
  /\ store' = clearAuth

LogoutReturn(t) ==
  /\ t.pc = "logout.clearAuth"
  /\ Respond(t, "logout.return", <<>>, [success |-> TRUE])
  /\ UNCHANGED store

(* getStoredEmail *)

GetStoredEmailCall(req) ==
  /\ Suspend(Task(req, "getStoredEmail.getStoredAuth",
                  [userEmail |-> getStoredAuth(store).userEmail], <<"get">>))
  /\ UNCHANGED store

\* return { email: userEmail || null }
GetStoredEmailReturn(t) ==
  /\ t.pc = "getStoredEmail.getStoredAuth"
  /\ Respond(t, "getStoredEmail.return", t.loc,
             [email |-> OrElse(t.loc.userEmail, "null")])
  /\ UNCHANGED store

(* fetchRecipientKeys and fetchPublicKey *)

\* the largest list of emails of one request
MaxEmails == 2

\* the lists of emails of a request
EmailLists == UNION { [1..n -> Emails] : n \in 0..MaxEmails }

\* the public key the backend holds for email
KeyOf(email) == "pk:" \o email

\* what one key request ends in: a response with its status and parsed body, a
\* fetch that rejects, or a body that response.json() cannot parse
KeyOutcomes(email) ==
  { [kind |-> "response", status |-> 200, body |-> [publicKey |-> KeyOf(email)]],
    [kind |-> "response", status |-> 404],
    [kind |-> "response", status |-> 500],
    [kind |-> "throw", message |-> TransportError],
    [kind |-> "throw", message |-> BodyError] }

\* a fetchPublicKey that returns the 'not found' value for every failure
fetchPublicKey_swallow(email, outcome) ==
  IF outcome.kind = "response" /\ Ok(outcome.status)
  THEN [found |-> TRUE, email |-> email, publicKey |-> Field(outcome.body, "publicKey")]
  ELSE [found |-> FALSE, email |-> email]

\* fetchPublicKey: the value it returns for the outcome of its request
fetchPublicKey(email, outcome) ==
  IF outcome.kind = "throw"
  THEN [found |-> FALSE, email |-> email, error |-> outcome.message]
  ELSE IF ~Ok(outcome.status)
       THEN IF outcome.status = 404
            THEN [found |-> FALSE, email |-> email]
            ELSE [found |-> FALSE, email |-> email,
                  error |-> "Failed to fetch key for " \o email]
       ELSE [found |-> TRUE, email |-> email,
             publicKey |-> Field(outcome.body, "publicKey")]

AllDone(lookups) == \A i \in DOMAIN lookups : lookups[i].pc = "done"

\* a batch that collects the results as the lookups end
AllResults_arrivalOrder(loc) ==
  [k \in DOMAIN loc.order |-> loc.lookups[loc.order[k]].result]

\* Promise.all(emails.map(fetchPublicKey)): the results, in the order of emails
AllResults(loc) == [i \in DOMAIN loc.lookups |-> loc.lookups[i].result]

\* the message of the TypeError of undefined.map(...)
MapOfUndefined == "Cannot read properties of undefined (reading 'map')"

\* const { emails } = request; emails.map(fetchPublicKey): every fetchPublicKey
\* runs up to its await authHeaders(); Promise.all of no promise is resolved
FetchKeysCall(req) ==
  LET emails == Field(req.message, "emails") IN
  IF "emails" \notin DOMAIN req.message
  THEN \* request.emails.map throws: the router's catch answers with the message
       /\ Answer(req, "router.catch", [error |-> MapOfUndefined])
       /\ UNCHANGED store
  ELSE
  IF emails = <<>>
  THEN /\ Answer(req, "fetchRecipientKeys.return", [recipients |-> <<>>])
       /\ UNCHANGED store
  ELSE /\ Suspend(Task(req, "fetchRecipientKeys.all",
                       [emails |-> emails, order |-> <<>>,
                        lookups |-> [i \in DOMAIN emails |->
                                       [pc |-> "authHeaders",
                                        headers |-> authHeaders(store)]]],
                       [i \in DOMAIN emails |-> "get"]))
       /\ UNCHANGED store

\* lookup i has its headers: fetch(`${API_BASE}/users/public-key/...`) is issued
KeyFetch(t, i) ==
  /\ t.pc = "fetchRecipientKeys.all"
  /\ i \in DOMAIN t.loc.lookups
  /\ t.loc.lookups[i].pc = "authHeaders"
  /\ Resume(t, Task(t.req, t.pc,
                    [t.loc EXCEPT !.lookups[i] = [pc |-> "fetch"]],
                    t.ops \o <<"net">>))
  /\ UNCHANGED store

\* the request of lookup i ends: fetchPublicKey returns; with the last lookup
\* Promise.all resolves and the handler returns { recipients: results }
KeyResponse(t, i) ==
  /\ t.pc = "fetchRecipientKeys.all"
  /\ i \in DOMAIN t.loc.lookups
  /\ t.loc.lookups[i].pc = "fetch"
  /\ \E outcome \in KeyOutcomes(t.loc.emails[i]) :
       LET loc == [t.loc EXCEPT !.order = @ \o <<i>>,
                                !.lookups[i] =
                                  [pc |-> "done", outcome |-> outcome,
                                   result |-> fetchPublicKey(t.loc.emails[i], outcome)]] IN
       IF AllDone(loc.lookups)
       THEN Respond(t, "fetchRecipientKeys.return", loc,
                    [recipients |-> AllResults(loc)])
       ELSE Resume(t, Task(t.req, t.pc, loc, t.ops))
  /\ UNCHANGED store

(* saveMetadata and saveFileMetadata *)

SaveMetadataCall(req) ==
  /\ Suspend(Task(req, "saveMetadata.authHeaders", [headers |-> authHeaders(store)],
                  <<"get">>))
  /\ UNCHANGED store

\* fetch(`${API_BASE}/files`, {method: 'POST', ...}) is issued
SaveMetadataFetch(t) ==
  /\ t.pc = "saveMetadata.authHeaders"
  /\ Resume(t, Task(t.req, "saveMetadata.fetch", <<>>, t.ops \o <<"net">>))
  /\ UNCHANGED store

\* a success response: return await response.json()
SaveMetadataOk(t) ==
  /\ t.pc = "saveMetadata.fetch"
  /\ Respond(t, "saveMetadata.return", [status |-> 200],
             [fileId |-> Field(t.req.message, "fileId")])
  /\ UNCHANGED store

\* a router without a catch: the rejection of the handler is left unhandled
SaveMetadataFailed_unhandled(t) ==
  /\ t.pc = "saveMetadata.fetch"
  /\ \E msg \in {"Failed to save file metadata", TransportError, BodyError} :
       /\ tasks' = tasks (-) SetToBag({t})
       /\ ev' = Event(t.req, "resume", "saveMetadata.throw", [err |-> msg], t.ops, <<>>)
  /\ UNCHANGED store

\* if (!response.ok) throw ...; catch (err) { throw err }: the router's catch answers
SaveMetadataFailed(t) ==
  /\ t.pc = "saveMetadata.fetch"
  /\ \E msg \in {"Failed to save file metadata", TransportError, BodyError} :
       Respond(t, "saveMetadata.throw", [err |-> msg], [error |-> msg])
  /\ UNCHANGED store

(* attachToGmail *)

\* chrome.runtime.lastError.message of a relay without a receiver
RelayError == "Could not establish connection. Receiving end does not exist."

\* what the content script answers: a value, or nothing
RelayAnswers == { [success |-> TRUE], [undefined |-> TRUE] }

\* up to await chrome.tabs.query(...)
AttachCall(req) ==
  /\ Suspend(Task(req, "attachToGmail.tabsQuery", <<>>, <<"tabs">>))
  /\ UNCHANGED store

\* if (tabs.length === 0) throw new Error('No Gmail tab found')
AttachNoTab(t) ==
  /\ t.pc = "attachToGmail.tabsQuery"
  /\ Respond(t, "attachToGmail.throw", [tabs |-> 0], [error |-> "No Gmail tab found"])
  /\ UNCHANGED store

\* chrome.tabs.sendMessage(tabs[0].id, ...) is issued
AttachRelay(t) ==
  /\ t.pc = "attachToGmail.tabsQuery"
  /\ Resume(t, Task(t.req, "attachToGmail.sendMessage", [tabs |-> 1],
                    t.ops \o <<"relay">>))
  /\ UNCHANGED store

\* the callback of the relay: reject on lastError, else resolve(response)
AttachAnswered(t) ==
  /\ t.pc = "attachToGmail.sendMessage"
  /\ \/ Respond(t, "attachToGmail.reject", [tabs |-> 1, lastError |-> RelayError],
                [error |-> RelayError])
     \/ \E response \in RelayAnswers : Respond(t, "attachToGmail.return", t.loc, response)
  /\ UNCHANGED store

(* openLogin *)

\* up to await chrome.tabs.create(...)
OpenLoginCall(req) ==
  /\ Suspend(Task(req, "openLogin.tabsCreate", <<>>, <<"tabs">>))
  /\ UNCHANGED store

OpenLoginReturn(t) ==
  /\ t.pc = "openLogin.tabsCreate"
  /\ Respond(t, "openLogin.return", <<>>, [success |-> TRUE])
  /\ UNCHANGED store

(* the router *)

\* the own properties of messageHandlers
HandlerNames ==
  { "checkAuth", "fetchRecipientKeys", "saveMetadata", "attachToGmail",
    "openLogin", "getStoredEmail", "loginWithCredentials", "logout" }

\* keys that the object literal messageHandlers inherits from Object.prototype
InheritedNames == { "toString", "constructor", "__proto__" }

\* what the listener throws when messageHandlers[request.action] is inherited:
\* toString() and Object(request) return a value without a then method, and
\* Object.prototype itself is not callable
InheritedThrows(name) ==
  IF name = "__proto__" THEN "handler is not a function"
  ELSE "handler(...).then is not a function"

\* the listener of chrome.runtime.onMessage: messageHandlers[request.action],
\* and the call of the handler up to its first await
InternalMessage(message) ==
  LET req == InternalRequest(message) IN
  IF message.action \in InheritedNames
  THEN \* if (handler) holds; the call or its .then throws a TypeError in the listener
       /\ ev' = Event(req, "listener", "router.inherited",
                      [handler |-> "Object.prototype." \o message.action,
                       thrown |-> InheritedThrows(message.action)], <<>>, <<>>)
       /\ UNCHANGED <<store, tasks>>
  ELSE
  IF message.action \notin HandlerNames
  THEN /\ ev' = Event(req, "listener", "router.nohandler", <<>>, <<>>, <<>>)
       /\ UNCHANGED <<store, tasks>>
  ELSE CASE message.action = "checkAuth" -> CheckAuthCall(req)
         [] message.action = "fetchRecipientKeys" -> FetchKeysCall(req)
         [] message.action = "saveMetadata" -> SaveMetadataCall(req)
         [] message.action = "attachToGmail" -> AttachCall(req)
         [] message.action = "openLogin" -> OpenLoginCall(req)
         [] message.action = "getStoredEmail" -> GetStoredEmailCall(req)
         [] message.action = "loginWithCredentials" -> LoginCall(req)
         [] message.action = "logout" -> LogoutCall(req)

----------------------------------------------------------------------------
(* The popup: values *)

\* no popup is open
NoPopup == [open |-> FALSE]

\* null
Null == [type |-> "null"]

(* JSON values, tagged with their JavaScript type *)

JNum(n) == [type |-> "number", num |-> n]
JStr(s) == [type |-> "string", str |-> s]
JArr(q) == [type |-> "array", items |-> q]
JObj(r) == [type |-> "object", props |-> r]
Undefined == [type |-> "undefined"]

\* an object without properties
EmptyObject == JObj([k \in {} |-> Undefined])

\* JavaScript truthiness of a tagged value: 0, "", null and undefined are falsy
JTruthy(j) ==
  CASE j.type \in {"undefined", "null"} -> FALSE
    [] j.type = "number" -> j.num # 0
    [] j.type = "string" -> j.str # ""
    [] OTHER -> TRUE

\* o.key for a tagged value: undefined unless o is an object with that property
Get(o, key) ==
  IF o.type = "object" /\ key \in DOMAIN o.props THEN o.props[key] ELSE Undefined

(* the text of a file, as a sequence of lexemes *)

LBrace == [t |-> "{"]
RBrace == [t |-> "}"]
LBracket == [t |-> "["]
RBracket == [t |-> "]"]
Member(key, value) == [t |-> "member", key |-> key, value |-> value]

\* text.startsWith('{')
startsWith(text, lexeme) == Len(text) > 0 /\ text[1] = lexeme

\* JSON.parse(text): an object for a brace, members, a brace (a later member
\* of the same key wins), the empty array for a pair of brackets, else SyntaxError
JSONParse(text) ==
  IF /\ Len(text) >= 2
     /\ text[1] = LBrace
     /\ text[Len(text)] = RBrace
     /\ \A i \in 2..(Len(text) - 1) : text[i].t = "member"
  THEN LET keys == { text[i].key : i \in 2..(Len(text) - 1) }
           last(k) == CHOOSE i \in 2..(Len(text) - 1) :
                        /\ text[i].key = k
                        /\ \A j \in 2..(Len(text) - 1) : text[j].key = k => j <= i
       IN [ok |-> TRUE, value |-> JObj([k \in keys |-> text[last(k)].value])]
  ELSE IF text = << LBracket, RBracket >>
  THEN [ok |-> TRUE, value |-> JArr(<<>>)]
  ELSE [ok |-> FALSE, name |-> "SyntaxError", message |-> "Unexpected end of JSON input"]

(* dates, in days since the epoch *)

\* Date.parse of the date strings of the model; any other string is no date
IsoDates == [d \in {"2020-01-01T00:00:00Z", "2030-01-01T00:00:00Z"} |->
               IF d = "2020-01-01T00:00:00Z" THEN 18262 ELSE 21915]

InvalidDate == [valid |-> FALSE]

\* new Date(value): the time value of a number, the parse of a string
NewDate(j) ==
  CASE j.type = "number" -> [valid |-> TRUE, time |-> j.num]
    [] j.type = "string" /\ j.str \in DOMAIN IsoDates -> [valid |-> TRUE, time |-> IsoDates[j.str]]
    [] OTHER -> InvalidDate

\* a < b on dates: false when either is an Invalid Date (NaN)
DateBefore(a, b) == a.valid /\ b.valid /\ a.time < b.time

\* the values of new Date(): a day in 2024, and the very day of the first date string
Clock == { 18262, 20000 }

(* strings *)

\* String.prototype.toLowerCase on the addresses of the model
toLowerCase(s) ==
  CASE s = "A@X.com" -> "a@x.com"
    [] s = "B@X.COM" -> "b@x.com"
    [] OTHER -> s

\* name.endsWith(suffix), for a name given as its dot-separated parts
endsWith(name, suffix) == Len(name) > 0 /\ name[Len(name)] = suffix

----------------------------------------------------------------------------
(* The popup: files *)

\* 10 * 1024 * 1024
MaxFileSize == 10 * 1024 * 1024

Doc(members) == << LBrace >> \o members \o << RBrace >>

\* the members version, fileId and payload: each absent, present, and for
\* version and payload also present with a falsy value
RequiredMembers ==
  { vs \o fs \o ps :
      vs \in { <<>>, << Member("version", JNum(1)) >>, << Member("version", JNum(0)) >> },
      fs \in { <<>>, << Member("fileId", JStr("f1")) >> },
      ps \in { <<>>, << Member("payload", JStr("ct")) >>, << Member("payload", JStr("")) >> } }

CompleteMembers ==
  << Member("version", JNum(1)), Member("fileId", JStr("f1")), Member("payload", JStr("ct")) >>

\* metadata: absent, empty, or with an expiresAt that is a date string (past or
\* future), a string that is no date, or the number 0
MetadataMembers ==
  { <<>>, << Member("metadata", EmptyObject) >> }
    \cup { << Member("metadata", JObj([expiresAt |-> e])) >> :
             e \in { JStr("2020-01-01T00:00:00Z"), JStr("2030-01-01T00:00:00Z"),
                     JStr("soon"), JNum(0) } }

Recipient(email) == JObj([email |-> JStr(email)])

\* recipients: absent, empty, a list of {email}, or a list with an entry without email
RecipientsMembers ==
  { <<>>,
    << Member("recipients", JArr(<<>>)) >>,
    << Member("recipients", JArr(<< Recipient("a@x.com") >>)) >>,
    << Member("recipients", JArr(<< Recipient("B@X.COM"), Recipient("A@X.com") >>)) >>,
    << Member("recipients", JArr(<< Recipient("b@x.com") >>)) >>,
    << Member("recipients", JArr(<< EmptyObject >>)) >> }

\* the texts of the files of the model
Texts ==
  { <<>>, << LBrace >>, << LBracket, RBracket >>, << LBracket, RBrace >> }
    \cup { Doc(ms) : ms \in RequiredMembers }
    \cup { Doc(CompleteMembers \o md \o rs) : md \in MetadataMembers, rs \in RecipientsMembers }

File(name, size, text) == [name |-> name, size |-> size, text |-> text]

\* a few texts under every name and size, and every text under a good name and size
Files ==
  { File(name, size, text) :
      name \in { <<"a", ".seal">>, <<"a", ".seal", ".txt">>, <<"a", ".txt">> },
      size \in { 100, MaxFileSize, MaxFileSize + 1 },
      text \in { <<>>, << LBrace >>, Doc(<<>>), Doc(CompleteMembers) } }
    \cup { File(<<"a", ".seal">>, 100, text) : text \in Texts }

----------------------------------------------------------------------------
(* The popup: state *)

\* the messages of showError
MsgExtension == "Please select a .seal file. This file type is not supported."
MsgTooLarge == "This file is too large to open in the extension. Please use seal.email/viewer instead."
MsgNotSeal == "This file is not a valid .seal file."
MsgSyntax == "Could not read this file. It may be corrupted."
MsgIncomplete == "This file is not a valid .seal file. It may be corrupted or incomplete."
MsgUnexpected(detail) == "An unexpected error occurred: " \o detail

\* the parts of the document that the listeners read and write
Document ==
  [ errorMessage |-> "",
    loginError |-> [hidden |-> TRUE, textContent |-> ""],
    btnLoginSubmit |-> [disabled |-> FALSE],
    userEmailDisplay |-> "",
    infoExpires |-> "",
    accessRow |-> [hidden |-> TRUE],
    infoAccess |-> "",
    btnOpenViewer |-> [disabled |-> FALSE, textContent |-> ""] ]

\* the popup with its variables, the active screens, whether the listeners are
\* set up, the document, and the suspended functions
Popup(userEmail, active, listening, dom, pending) ==
  [ open |-> TRUE, clicks |-> 0,
    currentSealFile |-> Null, currentRawText |-> Null, userEmail |-> userEmail,
    active |-> active, listening |-> listening, dom |-> dom, pending |-> pending ]

\* showScreen(name): remove 'active' from every screen, add it to the named one
showScreen(p, name) == [p EXCEPT !.active = {name}]

\* showError(message)
showError(p, message) ==
  showScreen([p EXCEPT !.dom.errorMessage = message], "error")

\* a suspended function of the popup: what it awaits and, once there, the outcome
Pending(fn, arg, state, result) ==
  [fn |-> fn, arg |-> arg, state |-> state, result |-> result]

PopupRequest(fn, arg) == [chan |-> "popup", fn |-> fn, arg |-> arg]

----------------------------------------------------------------------------
(* The popup: the .seal file check *)

\* the user is on the named screen, its listeners are set up, and the session
\* has a user event left
OnScreen(name) ==
  popup.open /\ popup.listening /\ name \in popup.active /\ popup.clicks < MaxClicks

\* the popup at a user event
Clicked == [popup EXCEPT !.clicks = @ + 1]

\* a step of the popup
PopupEvent(fn, arg, at, step, loc) ==
  Event(PopupRequest(fn, arg), at, step, loc, <<>>, <<>>)

\* !sealFile.version || !sealFile.fileId || !sealFile.payload
Incomplete_versionOnly(sealFile) == ~JTruthy(Get(sealFile, "version"))

Incomplete(sealFile) ==
  \/ ~JTruthy(Get(sealFile, "version"))
  \/ ~JTruthy(Get(sealFile, "fileId"))
  \/ ~JTruthy(Get(sealFile, "payload"))

\* const meta = sealFile.metadata || {}
MetaOf(sealFile) ==
  IF JTruthy(Get(sealFile, "metadata")) THEN Get(sealFile, "metadata") ELSE EmptyObject

\* if (meta.expiresAt) isExpired = new Date(meta.expiresAt) < new Date()
IsExpired(sealFile, now) ==
  LET e == Get(MetaOf(sealFile), "expiresAt") IN
  JTruthy(e) /\ DateBefore(NewDate(e), [valid |-> TRUE, time |-> now])

\* the recipients of the envelope as a sequence; empty when there is none
RecipientsOf(sealFile) ==
  IF JTruthy(Get(sealFile, "recipients")) THEN Get(sealFile, "recipients").items ELSE <<>>

\* r.email.toLowerCase() === userEmail.toLowerCase()
Matches(r, userEmail) ==
  /\ Get(r, "email").type = "string"
  /\ toLowerCase(Get(r, "email").str) = toLowerCase(userEmail.str)

\* recipients.some(...) reaches an entry whose email is undefined before any match
SomeThrows(sealFile, userEmail) ==
  /\ JTruthy(userEmail)
  /\ \E i \in DOMAIN RecipientsOf(sealFile) :
       /\ Get(RecipientsOf(sealFile)[i], "email").type # "string"
       /\ \A j \in 1..(i - 1) : ~Matches(RecipientsOf(sealFile)[j], userEmail)

\* an access check that compares the addresses as they are written
HasAccess_caseSensitive(sealFile, userEmail) ==
  /\ JTruthy(userEmail)
  /\ \E i \in DOMAIN RecipientsOf(sealFile) :
       Get(RecipientsOf(sealFile)[i], "email") = userEmail

\* if (userEmail && sealFile.recipients) hasAccess = sealFile.recipients.some(...)
HasAccess(sealFile, userEmail) ==
  /\ JTruthy(userEmail)
  /\ \E i \in DOMAIN RecipientsOf(sealFile) : Matches(RecipientsOf(sealFile)[i], userEmail)

\* a button that lets an expired file through for a recipient
ButtonState_accessFirst(isExpired, hasAccess, userEmail) ==
  IF ~hasAccess /\ JTruthy(userEmail)
  THEN [disabled |-> TRUE, textContent |-> "You are not a recipient"]
  ELSE IF isExpired /\ ~JTruthy(userEmail)
  THEN [disabled |-> TRUE, textContent |-> "File has expired"]
  ELSE [disabled |-> FALSE, textContent |-> "Open in Secure Viewer"]

\* the state of btnOpenViewer
ButtonState(isExpired, hasAccess, userEmail) ==
  IF isExpired
  THEN [disabled |-> TRUE, textContent |-> "File has expired"]
  ELSE IF ~hasAccess /\ JTruthy(userEmail)
  THEN [disabled |-> TRUE, textContent |-> "You are not a recipient"]
  ELSE [disabled |-> FALSE, textContent |-> "Open in Secure Viewer"]

ToLowerCaseOfUndefined == "Cannot read properties of undefined (reading 'toLowerCase')"

\* displayFileInfo(sealFile, fileSize) at the time now: the popup after it, its
\* locals, and whether it threw (then what it wrote before the throw stays)
displayFileInfo(p, sealFile, now) ==
  LET isExpired == IsExpired(sealFile, now)
      hasAccess == HasAccess(sealFile, p.userEmail)
      expires == IF ~JTruthy(Get(MetaOf(sealFile), "expiresAt")) THEN "Never"
                 ELSE IF isExpired THEN "<span class=\"expired-badge\">Expired</span>"
                 ELSE "toLocaleDateString"
      p1 == [p EXCEPT !.dom.infoExpires = expires]
  IN
  IF SomeThrows(sealFile, p.userEmail)
  THEN [threw |-> TRUE, message |-> ToLowerCaseOfUndefined, popup |-> p1,
        loc |-> [now |-> now, identity |-> p.userEmail, isExpired |-> isExpired]]
  ELSE [threw |-> FALSE,
        popup |-> showScreen(
          [p1 EXCEPT !.dom.accessRow.hidden = ~JTruthy(p.userEmail),
                     !.dom.infoAccess =
                        IF ~JTruthy(p.userEmail) THEN @
                        ELSE IF hasAccess THEN "<span class=\"access-granted\">Authorized</span>"
                        ELSE "<span class=\"access-denied\">Not a recipient</span>",
                     !.dom.btnOpenViewer = ButtonState(isExpired, hasAccess, p.userEmail)],
          "info"),
        loc |-> [now |-> now, identity |-> p.userEmail,
                 isExpired |-> isExpired, hasAccess |-> hasAccess]]

\* the drop or change event with a file: handleFile up to await file.text()
HandleFile(file) ==
  /\ OnScreen("drop")
  /\ IF ~endsWith(file.name, ".seal")
     THEN /\ popup' = showError(Clicked, MsgExtension)
          /\ ev' = PopupEvent("handleFile", file, "listener", "handleFile.extension",
                              [stages |-> <<"extension">>])
     ELSE IF file.size > MaxFileSize
     THEN /\ popup' = showError(Clicked, MsgTooLarge)
          /\ ev' = PopupEvent("handleFile", file, "listener", "handleFile.size",
                              [stages |-> <<"extension", "size">>])
     ELSE /\ BagCardinality(popup.pending) < MaxPending
          /\ popup' = [Clicked EXCEPT !.pending =
                         @ (+) SetToBag({Pending("handleFile", file, "reading", Null)})]
          /\ ev' = PopupEvent("handleFile", file, "listener", "handleFile.text",
                              [stages |-> <<"extension", "size">>])
  /\ UNCHANGED <<store, tasks>>

\* the message of the rejection of file.text()
NotReadable == "The requested file could not be read"

\* file.text() has settled: the rest of handleFile
FileText(q) ==
  /\ q.fn = "handleFile"
  /\ LET p == [popup EXCEPT !.pending = @ (-) SetToBag({q})]
         file == q.arg
         text == file.text
         parsed == JSONParse(text)
         done(pp, step, stages, loc) ==
           /\ popup' = pp
           /\ ev' = PopupEvent("handleFile", file, "resume", step,
                               [stages |-> <<"extension", "size">> \o stages] @@ loc)
     IN
     \/ done(showError(p, MsgUnexpected(NotReadable)), "handleFile.catch", <<>>,
             [err |-> NotReadable])
     \/ IF ~startsWith(text, LBrace)
        THEN done(showError(p, MsgNotSeal), "handleFile.brace", <<"brace">>, <<>>)
        ELSE IF ~parsed.ok
        THEN done(showError(p, MsgSyntax), "handleFile.syntax", <<"brace", "parse">>,
                  [err |-> parsed.name])
        ELSE IF Incomplete(parsed.value)
        THEN done(showError(p, MsgIncomplete), "handleFile.schema",
                  <<"brace", "parse", "schema">>, <<>>)
        ELSE \E now \in Clock :
               LET kept == [p EXCEPT !.currentSealFile = parsed.value,
                                     !.currentRawText = text]
                   shown == displayFileInfo(kept, parsed.value, now)
               IN IF shown.threw
                  THEN done(showError(shown.popup, MsgUnexpected(shown.message)),
                            "handleFile.catch", <<"brace", "parse", "schema">>,
                            shown.loc @@ [err |-> shown.message])
                  ELSE done(shown.popup, "displayFileInfo",
                            <<"brace", "parse", "schema">>, shown.loc)
  /\ UNCHANGED <<store, tasks>>

\* click on btnBack (from the info screen) or btnErrorBack (from the error screen)
Back(from) ==
  /\ OnScreen(from)
  /\ popup' = showScreen([Clicked EXCEPT !.currentSealFile = Null,
                                       !.currentRawText = Null], "drop")
  /\ ev' = PopupEvent("back", from, "listener", "back", <<>>)
  /\ UNCHANGED <<store, tasks>>

\* (currentSealFile.metadata?.originalName || 'file') + '.seal'
ViewerFilename(sealFile) ==
  LET name == Get(Get(sealFile, "metadata"), "originalName") IN
  [base |-> IF JTruthy(name) THEN name ELSE JStr("file"), ext |-> ".seal"]

ViewerUrl == "https://seal.email/viewer"

\* a design that hands the file to the viewer through chrome.storage.local
OpenInViewer_viaStorage ==
  /\ OnScreen("info")
  /\ ~popup.dom.btnOpenViewer.disabled
  /\ popup' = Clicked
  /\ IF ~JTruthy(popup.currentSealFile)
     THEN /\ ev' = PopupEvent("openInViewer", Null, "listener", "openInViewer.nofile", <<>>)
          /\ store' = store
     ELSE /\ ev' = Event(PopupRequest("openInViewer", Null), "listener",
                         "openInViewer.store", <<>>, <<"set", "tabs">>, <<>>)
          /\ store' = [k \in DOMAIN store \cup {"pendingSealFile"} |->
                         IF k = "pendingSealFile" THEN popup.currentRawText ELSE store[k]]
  /\ UNCHANGED tasks

\* click on btnOpenViewer, which a disabled button does not deliver: a Blob of
\* the raw text, an object URL for it, and chrome.downloads.download of that URL
OpenInViewer ==
  /\ OnScreen("info")
  /\ ~popup.dom.btnOpenViewer.disabled
  /\ IF ~JTruthy(popup.currentSealFile)
     THEN /\ popup' = Clicked
          /\ ev' = PopupEvent("openInViewer", Null, "listener", "openInViewer.nofile", <<>>)
     ELSE /\ BagCardinality(popup.pending) < MaxPending
          /\ LET download == [blob |-> popup.currentRawText,
                              filename |-> ViewerFilename(popup.currentSealFile),
                              saveAs |-> FALSE]
             IN /\ popup' = [Clicked EXCEPT !.pending = @ (+) SetToBag(
                               {Pending("openInViewer", download, "downloading", Null)})]
                /\ ev' = Event(PopupRequest("openInViewer", Null), "listener",
                               "openInViewer.download", [download |-> download],
                               <<"blob", "download">>, <<>>)
  /\ UNCHANGED <<store, tasks>>

\* the callback of chrome.downloads.download, whatever became of the download:
\* chrome.tabs.create of the viewer, then URL.revokeObjectURL
DownloadDone(q) ==
  /\ q.fn = "openInViewer"
  /\ q.state = "downloading"
  /\ popup' = [popup EXCEPT !.pending = @ (-) SetToBag({q})]
  /\ ev' = Event(PopupRequest("openInViewer", Null), "resume", "openInViewer.tab",
                 [download |-> q.arg, tab |-> ViewerUrl],
                 <<"blob", "download", "tabs", "revoke">>, <<>>)
  /\ UNCHANGED <<store, tasks>>

----------------------------------------------------------------------------
(* The popup: messages to the service worker, login and logout *)

\* chrome.runtime.lastError.message of a sendMessage that reached no listener
PortClosed == "The message port closed before a response was received."

\* the promise of sendMessage(message), given what the callback got
Settle(result) ==
  IF "lastError" \in DOMAIN result
  THEN [rejected |-> result.lastError]
  ELSE IF Truthy(Field(result.response, "error"))
  THEN [rejected |-> result.response.error]
  ELSE [resolved |-> result.response]

\* result.authenticated && result.email
Authenticated(result) ==
  Field(result, "authenticated") = TRUE /\ Truthy(Field(result, "email"))

\* the suspended function q of the popup becomes r
Replace(p, q, r) ==
  [p EXCEPT !.pending = (@ (-) SetToBag({q})) (+) SetToBag({r})]

\* the state after the script has run: init() is suspended at its sendMessage
PopupStart ==
  Popup(Null, {"loading"}, FALSE, Document,
        SetToBag({Pending("init", [action |-> "checkAuth"], "sent", Null)}))

\* a response of the service worker reaches the callback of the sendMessage
\* that waits for it
Delivered(p, e) ==
  IF e.req.chan = "internal" /\ e.resps # <<>>
  THEN LET q == CHOOSE q \in BagToSet(p.pending) :
                  q.state = "received" /\ q.arg = e.req.message
       IN Replace(p, q, Pending(q.fn, q.arg, "answered", [response |-> e.resps[1]]))
  ELSE p

\* the message of the suspended function q arrives at the service worker
WorkerReceives(q) ==
  /\ q \in BagToSet(popup.pending)
  /\ q.state = "sent"
  /\ InternalMessage(q.arg)
  /\ popup' = IF ev'.resps # <<>>
              THEN Replace(popup, q,
                           Pending(q.fn, q.arg, "answered", [response |-> ev'.resps[1]]))
              ELSE Replace(popup, q, Pending(q.fn, q.arg, "received", Null))

\* the message reaches no listener: the callback runs with lastError set
TransportFails(q) ==
  /\ q \in BagToSet(popup.pending)
  /\ q.state = "sent"
  /\ popup' = Replace(popup, q, Pending(q.fn, q.arg, "answered", [lastError |-> PortClosed]))
  /\ ev' = PopupEvent(q.fn, q.arg, "callback", "sendMessage.lastError", <<>>)
  /\ UNCHANGED <<store, tasks>>

\* init() after await sendMessage({action: 'checkAuth'}), and setupEventListeners()
InitResumed(q) ==
  /\ q \in BagToSet(popup.pending)
  /\ q.fn = "init" /\ q.state = "answered"
  /\ LET p == [popup EXCEPT !.pending = @ (-) SetToBag({q}), !.listening = TRUE]
         authResult == Settle(q.result)
     IN IF "resolved" \in DOMAIN authResult /\ Authenticated(authResult.resolved)
        THEN /\ popup' = showScreen(
                  [p EXCEPT !.userEmail = JStr(authResult.resolved.email),
                            !.dom.userEmailDisplay = authResult.resolved.email], "drop")
             /\ ev' = PopupEvent("init", q.arg, "resume", "init.drop", authResult)
        ELSE /\ popup' = showScreen(p, "login")
             /\ ev' = PopupEvent("init", q.arg, "resume", "init.login", authResult)
  /\ UNCHANGED <<store, tasks>>

\* the values of the login form: email (trimmed) and password
Credentials == { [email |-> "a@x.com", password |-> "pw"], [email |-> "", password |-> "pw"] }

\* submit of the login form: handleLogin up to its await sendMessage
HandleLogin(c) ==
  /\ OnScreen("login")
  /\ ~popup.dom.btnLoginSubmit.disabled
  /\ BagCardinality(popup.pending) < MaxPending
  /\ LET message == [action |-> "loginWithCredentials",
                     email |-> c.email, password |-> c.password]
     IN /\ popup' = [Clicked EXCEPT
                       !.dom.loginError.hidden = TRUE,
                       !.dom.btnLoginSubmit.disabled = TRUE,
                       !.pending = @ (+) SetToBag({Pending("handleLogin", message, "sent", Null)})]
        /\ ev' = PopupEvent("handleLogin", message, "listener", "handleLogin.sendMessage", <<>>)
  /\ UNCHANGED <<store, tasks>>

LoginFailedText == "Login failed. Check your email and password."

\* handleLogin after its await: the drop screen, or the error of the form
LoginResumed(q) ==
  /\ q \in BagToSet(popup.pending)
  /\ q.fn = "handleLogin" /\ q.state = "answered"
  /\ LET p == [popup EXCEPT !.pending = @ (-) SetToBag({q}),
                            !.dom.btnLoginSubmit.disabled = FALSE]
         result == Settle(q.result)
     IN IF "resolved" \in DOMAIN result /\ Authenticated(result.resolved)
        THEN /\ popup' = showScreen(
                  [p EXCEPT !.userEmail = JStr(result.resolved.email),
                            !.dom.userEmailDisplay = result.resolved.email], "drop")
             /\ ev' = PopupEvent("handleLogin", q.arg, "resume", "handleLogin.drop", result)
        ELSE /\ popup' = [p EXCEPT !.dom.loginError =
                            [hidden |-> FALSE,
                             textContent |->
                               IF "rejected" \in DOMAIN result
                               THEN OrElse(result.rejected, LoginFailedText)
                               ELSE OrElse(Field(result.resolved, "error"), LoginFailedText)]]
             /\ ev' = PopupEvent("handleLogin", q.arg, "resume", "handleLogin.error", result)
  /\ UNCHANGED <<store, tasks>>

\* click on btnLogout: handleLogout up to its await sendMessage
HandleLogout ==
  /\ OnScreen("drop")
  /\ BagCardinality(popup.pending) < MaxPending
  /\ popup' = [Clicked EXCEPT !.pending =
                 @ (+) SetToBag({Pending("handleLogout", [action |-> "logout"], "sent", Null)})]
  /\ ev' = PopupEvent("handleLogout", [action |-> "logout"], "listener",
                      "handleLogout.sendMessage", <<>>)
  /\ UNCHANGED <<store, tasks>>

\* a logout that stays where it is when the request failed
LogoutResumed_showsFailure(q) ==
  /\ q \in BagToSet(popup.pending)
  /\ q.fn = "handleLogout" /\ q.state = "answered"
  /\ LET p == [popup EXCEPT !.pending = @ (-) SetToBag({q})] IN
     IF "rejected" \in DOMAIN Settle(q.result)
     THEN popup' = [p EXCEPT !.dom.errorMessage = Settle(q.result).rejected]
     ELSE popup' = showScreen([p EXCEPT !.userEmail = Null, !.currentSealFile = Null,
                                        !.currentRawText = Null], "login")
  /\ ev' = PopupEvent("handleLogout", q.arg, "resume", "handleLogout.login", Settle(q.result))
  /\ UNCHANGED <<store, tasks>>

\* handleLogout after its await, whatever the outcome: catch (err) { } and on
LogoutResumed(q) ==
  /\ q \in BagToSet(popup.pending)
  /\ q.fn = "handleLogout" /\ q.state = "answered"
  /\ popup' = showScreen([popup EXCEPT !.pending = @ (-) SetToBag({q}),
                                       !.userEmail = Null,
                                       !.currentSealFile = Null,
                                       !.currentRawText = Null], "login")
  /\ ev' = PopupEvent("handleLogout", q.arg, "resume", "handleLogout.login", Settle(q.result))
  /\ UNCHANGED <<store, tasks>>

----------------------------------------------------------------------------
(* Specifications *)

Init ==
  /\ store = clearAuth
  /\ tasks = EmptyBag
  /\ ev = NoEvent
  /\ popup = NoPopup

LoginMessages ==
  { [action |-> "loginWithCredentials", email |-> "a@x.com", password |-> "pw"],
    [action |-> "loginWithCredentials", email |-> "", password |-> "pw"],
    [action |-> "loginWithCredentials", email |-> "a@x.com", password |-> ""],
    [action |-> "loginWithCredentials", password |-> "pw"],
    [action |-> "loginWithCredentials", email |-> "a@x.com"] }

\* requests to the handlers that read or write the store
CoreMessages_internal ==
  { [action |-> "checkAuth"], [action |-> "logout"], [action |-> "getStoredEmail"] }
    \cup LoginMessages

\* a continuation of a handler on the credential store
ContinueCore(t) ==
  \/ ExternalStored(t)
  \/ CheckAuthFetch(t)
  \/ CheckAuthFailed(t)
  \/ CheckAuthNotOk(t)
  \/ CheckAuthOk(t)
  \/ CheckAuthReconcile(t)
  \/ CheckAuthReturn(t)
  \/ LoginFailed(t)
  \/ LoginResponse(t)
  \/ LoginReturn(t)
  \/ LogoutReturn(t)
  \/ GetStoredEmailReturn(t)

\* a continuation of a lookup of fetchRecipientKeys
ContinueKeys(t) ==
  \/ \E i \in 1..MaxEmails : KeyFetch(t, i)
  \/ \E i \in 1..MaxEmails : KeyResponse(t, i)

\* a continuation of a handler that relays to the backend or to a tab
ContinueRelay(t) ==
  \/ SaveMetadataFetch(t)
  \/ SaveMetadataOk(t)
  \/ SaveMetadataFailed(t)
  \/ AttachNoTab(t)
  \/ AttachRelay(t)
  \/ AttachAnswered(t)
  \/ OpenLoginReturn(t)

\* the credential protocol: the handlers of both channels that read or write
\* the store, in every interleaving
Next ==
  \/ /\ \E sender \in CoreSenders, message \in CoreMessages :
          ExternalMessage(sender, message)
     /\ UNCHANGED popup
  \/ /\ \E message \in CoreMessages_internal : InternalMessage(message)
     /\ UNCHANGED popup
  \/ /\ \E t \in InFlight : ContinueCore(t)
     /\ UNCHANGED popup

Spec == Init /\ [][Next]_vars

\* the external channel alone, with every sender and every message
NextExternal ==
  \/ /\ \E sender \in Senders, message \in ExternalMessages :
          ExternalMessage(sender, message)
     /\ UNCHANGED popup
  \/ /\ \E t \in InFlight : ExternalStored(t)
     /\ UNCHANGED popup

SpecExternal == Init /\ [][NextExternal]_vars

\* the stores a batch of key lookups may start from
InitKeys ==
  /\ store \in {clearAuth, storeAuth("t1", "a@x.com"), storeAuth("", "b@x.com")}
  /\ tasks = EmptyBag
  /\ ev = NoEvent
  /\ popup = NoPopup

\* key lookups, one batch at a time: a batch reads the store in its first step
\* only and writes nothing that another invocation reads
NextKeys ==
  \/ /\ tasks = EmptyBag
     /\ \E emails \in EmailLists :
          InternalMessage([action |-> "fetchRecipientKeys", emails |-> emails])
     /\ UNCHANGED popup
  \/ /\ \E t \in InFlight : ContinueKeys(t)
     /\ UNCHANGED popup

SpecKeys == InitKeys /\ [][NextKeys]_vars

\* requests to every handler, two whose action is no property of messageHandlers
\* and three whose action is an inherited one
InternalMessages ==
  CoreMessages_internal
    \cup { [action |-> "fetchRecipientKeys", emails |-> emails] : emails \in EmailLists }
    \cup { [action |-> "fetchRecipientKeys"],
           [action |-> "saveMetadata", fileId |-> "f1"],
           [action |-> "attachToGmail", filename |-> "a.seal"],
           [action |-> "openLogin"],
           [action |-> "ping"], [action |-> "" ] }
    \cup { [action |-> name] : name \in InheritedNames }

Continue(t) == ContinueCore(t) \/ ContinueKeys(t) \/ ContinueRelay(t)

\* every request of both channels, one at a time
NextSerial ==
  \/ /\ tasks = EmptyBag
     /\ \E sender \in Senders, message \in ExternalMessages :
          ExternalMessage(sender, message)
     /\ UNCHANGED popup
  \/ /\ tasks = EmptyBag
     /\ \E message \in InternalMessages : InternalMessage(message)
     /\ UNCHANGED popup
  \/ /\ \E t \in InFlight : Continue(t)
     /\ UNCHANGED popup

\* storage callbacks, fetches, tab queries and relays all complete
FairSpec ==
  Init /\ [][NextSerial]_vars
       /\ WF_vars((\E t \in InFlight : Continue(t)) /\ UNCHANGED popup)

\* the identities the popup may hold on the drop screen: none, or an address
Identities == { Null, JStr("a@x.com"), JStr("A@X.com") }

\* the popup on the drop screen, with an identity or without
InitFile ==
  /\ store = clearAuth
  /\ tasks = EmptyBag
  /\ ev = NoEvent
  /\ popup \in { Popup(u, {"drop"}, TRUE, Document, EmptyBag) : u \in Identities }

\* file loads one at a time, and back navigation
NextFile ==
  \/ /\ popup.pending = EmptyBag
     /\ \E file \in Files : HandleFile(file)
  \/ \E q \in BagToSet(popup.pending) : FileText(q)
  \/ Back("info")
  \/ Back("error")
  \/ OpenInViewer
  \/ \E q \in BagToSet(popup.pending) : DownloadDone(q)

SpecFile == InitFile /\ [][NextFile]_vars

\* the files of the popup with its service worker: a good one, and one of
\* another type
PopupFiles ==
  { File(<<"a", ".seal">>, 100,
         Doc(CompleteMembers \o << Member("recipients", JArr(<< Recipient("a@x.com") >>)) >>)),
    File(<<"a", ".txt">>, 100, <<>>) }

\* the messages of the web app, from its own origin
WebAppSender == [url |-> Url("https", "seal.email", "", "/login")]

WebAppMessages ==
  { [type |-> "SEAL_LOGOUT"],
    [type |-> "SEAL_AUTH_TOKEN", token |-> "t2", email |-> "b@x.com"] }

\* the popup opens on a service worker with or without a stored session
InitPopup ==
  /\ store \in { clearAuth, storeAuth("t1", "a@x.com") }
  /\ tasks = EmptyBag
  /\ ev = NoEvent
  /\ popup = PopupStart

\* a handler of the service worker goes on; its response, if any, is delivered
WorkerContinues(t) ==
  /\ ContinueCore(t)
  /\ popup' = Delivered(popup, ev')

\* a step of the popup
PopupStep ==
  \/ \E q \in BagToSet(popup.pending) : InitResumed(q)
  \/ \E c \in Credentials : HandleLogin(c)
  \/ \E q \in BagToSet(popup.pending) : LoginResumed(q)
  \/ HandleLogout
  \/ \E q \in BagToSet(popup.pending) : LogoutResumed(q)
  \/ \E file \in PopupFiles : HandleFile(file)
  \/ \E q \in BagToSet(popup.pending) : FileText(q)
  \/ Back("info")
  \/ Back("error")
  \/ OpenInViewer
  \/ \E q \in BagToSet(popup.pending) : DownloadDone(q)

\* the popup, its service worker handling one message at a time, and the web
\* app in a tab
NextPopup ==
  \/ PopupStep
  \/ /\ tasks = EmptyBag
     /\ \E q \in BagToSet(popup.pending) : WorkerReceives(q)
  \/ \E q \in BagToSet(popup.pending) : TransportFails(q)
  \/ \E t \in InFlight : WorkerContinues(t)
  \/ /\ tasks = EmptyBag
     /\ \E message \in WebAppMessages : ExternalMessage(WebAppSender, message)
     /\ UNCHANGED popup

SpecPopup == InitPopup /\ [][NextPopup]_vars

\* the popup and its service worker, where a message sent arrives or fails,
\* the handlers of the service worker go on, and callbacks that are due run
FairPopup ==
  /\ InitPopup /\ [][NextPopup]_vars
  /\ WF_vars(\E q \in BagToSet(popup.pending) :
               (tasks = EmptyBag /\ WorkerReceives(q)) \/ TransportFails(q))
  /\ WF_vars(\E t \in InFlight : WorkerContinues(t))
  /\ WF_vars(\E q \in BagToSet(popup.pending) : LogoutResumed(q))

----------------------------------------------------------------------------
(* Properties *)

\* the last response sent in the step
Resp == ev.resps[Len(ev.resps)]

Internal(e, action) == e.req.chan = "internal" /\ e.req.message.action = action

\* the sender's origin is neither https://seal.email nor http://localhost:3000
UntrustedSender(sender) ==
  \/ "url" \notin DOMAIN sender
  \/ Origin(sender.url) \notin {"https://seal.email", "http://localhost:3000"}

\* C1: an external message whose sender origin is not https://seal.email or
\* http://localhost:3000 (a sender without URL included) is answered
\* {error: 'Unauthorized origin'} whatever its type (SEAL_AUTH_TOKEN, SEAL_LOGOUT
\* and SEAL_PING included), no branch on the type runs, and the store is unchanged.
C1_UntrustedRejected ==
  [][ (ev'.at = "listener" /\ ev'.req.chan = "external"
         /\ UntrustedSender(ev'.req.sender))
      => /\ ev'.resps = << [error |-> "Unauthorized origin"] >>
         /\ ev'.step = "ext.reject"
         /\ ev'.ops = <<>>
         /\ store' = store
         /\ tasks' = tasks ]_vars

\* a complete SEAL_AUTH_TOKEN from http://seal.email was rejected and the stored
\* credential of another user is still there
C1_Witness ==
  /\ ev.step = "ext.reject"
  /\ ev.req.message = [type |-> "SEAL_AUTH_TOKEN", token |-> "t1", email |-> "a@x.com"]
  /\ ev.req.sender = [url |-> Url("http", "seal.email", "", "/login")]
  /\ store = storeAuth("t2", "b@x.com")

\* C2: authToken and userEmail are both present and non-empty, or both absent,
\* in every reachable state of the store.
C2_CredentialPaired ==
  \/ Truthy(store.authToken) /\ Truthy(store.userEmail)
  \/ store.authToken = Absent /\ store.userEmail = Absent

\* C4: a SEAL_AUTH_TOKEN from an allow-listed origin that lacks the token, the
\* email or both is answered {error: 'Missing token or email'} and leaves the
\* store unchanged; with both, the store then holds that token and that email.
C4_Handoff ==
  [][ (ev'.at = "listener" /\ ev'.req.chan = "external"
         /\ ~UntrustedSender(ev'.req.sender)
         /\ ev'.req.message.type = "SEAL_AUTH_TOKEN")
      => LET m == ev'.req.message IN
         IF ~Truthy(Field(m, "token")) \/ ~Truthy(Field(m, "email"))
         THEN /\ ev'.resps = << [error |-> "Missing token or email"] >>
              /\ store' = store
              /\ tasks' = tasks
         ELSE store' = [authToken |-> m.token, userEmail |-> m.email] ]_vars

\* a handoff without email was refused while a credential was stored
C4_Witness ==
  /\ ev.step = "ext.token.missing"
  /\ ev.req.message = [type |-> "SEAL_AUTH_TOKEN", token |-> "t1"]
  /\ store = storeAuth("t2", "b@x.com")

\* the backend's answer to checkAuth, as the invocation holds it: a status
\* that is not a success, or a body without authenticated true and an email
BackendDenied(loc) ==
  \/ "status" \in DOMAIN loc /\ ~(loc.status \in 200..299)
  \/ "data" \in DOMAIN loc
       /\ (loc.data.authenticated = FALSE \/ "email" \notin DOMAIN loc.data)

\* C5: when checkAuth returns after a response that is not a success, or after a
\* body with authenticated false or without email, that checkAuth has issued
\* clearAuth after its request and before it returns; the clearAuth empties the store.
C5_DeniedClears ==
  /\ [] ( (Internal(ev, "checkAuth") /\ ev.resps # <<>> /\ BackendDenied(ev.loc))
          => \E i, j \in DOMAIN ev.ops :
               i < j /\ ev.ops[i] = "net" /\ ev.ops[j] = "clear" )
  /\ [][ (Internal(ev', "checkAuth") /\ ev'.at = "resume" /\ ev'.resps = <<>>
            /\ ev'.ops[Len(ev'.ops)] = "clear")
         => store' = clearAuth ]_vars

\* checkAuth returned {authenticated: false} after a 401, having cleared a stored credential
C5_Witness ==
  /\ Internal(ev, "checkAuth")
  /\ ev.resps = << [authenticated |-> FALSE] >>
  /\ ev.loc = [status |-> 401]
  /\ ev.ops = <<"get", "net", "clear">>
  /\ store = clearAuth

\* C6: the write by which checkAuth reconciles the cached email leaves the
\* token in the store as it was immediately before the write.
C6_ReconcileKeepsToken ==
  [][ (Internal(ev', "checkAuth") /\ ev'.at = "resume" /\ ev'.step = "checkAuth.storeAuth")
      => store'.authToken = store.authToken ]_vars

\* C7: loginWithCredentials with an empty or missing email or password returns
\* {authenticated: false, error: 'Email and password are required'}, issues no
\* network call and does not change the store.
C7_MissingCredentials ==
  [][ (ev'.at = "listener" /\ Internal(ev', "loginWithCredentials")
         /\ (~Truthy(Field(ev'.req.message, "email"))
               \/ ~Truthy(Field(ev'.req.message, "password"))))
      => /\ ev'.resps = << [authenticated |-> FALSE,
                            error |-> "Email and password are required"] >>
         /\ ev'.ops = <<>>
         /\ store' = store
         /\ tasks' = tasks ]_vars

\* loginWithCredentials("", "pw") was refused while a credential was stored
C7_Witness ==
  /\ ev.step = "login.invalid"
  /\ ev.req.message = [action |-> "loginWithCredentials", email |-> "", password |-> "pw"]
  /\ store = storeAuth("t1", "a@x.com")

\* the backend answered the login with a success status and authenticated true
LoginGranted(loc) ==
  /\ "status" \in DOMAIN loc
  /\ loc.status \in 200..299
  /\ Field(loc.data, "authenticated") = TRUE

\* C8: loginWithCredentials writes the store exactly when the backend answered
\* with a success status and authenticated true; the store then holds the
\* returned token and email and the result is {authenticated: true, email}.  In
\* every other outcome the result is the value {authenticated: false, error}
\* and no step of the login changes the store.
C8_LoginWritesIffGranted ==
  /\ [] ( (Internal(ev, "loginWithCredentials") /\ ev.resps # <<>>)
          => /\ Len(ev.resps) = 1
             /\ LoginGranted(ev.loc) <=> (\E i \in DOMAIN ev.ops : ev.ops[i] = "set")
             /\ \A i \in DOMAIN ev.ops : ev.ops[i] # "clear"
             /\ IF LoginGranted(ev.loc)
                THEN Resp = [authenticated |-> TRUE, email |-> ev.loc.data.email]
                ELSE /\ DOMAIN Resp = {"authenticated", "error"}
                     /\ Resp.authenticated = FALSE
                     /\ Truthy(Resp.error) )
  /\ [][ Internal(ev', "loginWithCredentials")
         => IF ev'.at = "resume" /\ ev'.resps = <<>>
            THEN /\ LoginGranted(ev'.loc)
                 /\ store' = [authToken |-> ev'.loc.data.token,
                              userEmail |-> ev'.loc.data.email]
            ELSE store' = store ]_vars

\* a login returned {authenticated: true, email} after the backend granted it
C8_Witness ==
  /\ Internal(ev, "loginWithCredentials")
  /\ ev.resps = << [authenticated |-> TRUE, email |-> "b@x.com"] >>
  /\ ev.ops = <<"net", "set">>
  /\ store = storeAuth("t2", "b@x.com")

\* the request is one that the router answers: an external message, or an
\* internal request whose action is one of the eight handlers
Answerable(e) ==
  \/ e.req.chan = "external"
  \/ /\ e.req.chan = "internal"
     /\ e.req.message.action \in
          { "checkAuth", "fetchRecipientKeys", "saveMetadata", "attachToGmail",
            "openLogin", "getStoredEmail", "loginWithCredentials", "logout" }

\* C3: every external message and every internal request whose action has a
\* handler gets exactly one response: no step calls sendResponse twice, the
\* listener answers at once or leaves one suspended invocation, a continuation
\* answers exactly when its invocation ends, and every suspended invocation ends.
C3_ExactlyOneResponse ==
  /\ [] (Len(ev.resps) <= 1)
  /\ [][ (Answerable(ev') /\ ev'.at = "listener")
         => \/ Len(ev'.resps) = 1 /\ tasks' = tasks
            \/ /\ ev'.resps = <<>>
               /\ \E t \in BagToSet(tasks') :
                    t.req = ev'.req /\ tasks' = tasks (+) SetToBag({t}) ]_vars
  /\ [][ (Answerable(ev') /\ ev'.at = "resume")
         => \E t \in BagToSet(tasks) :
              /\ t.req = ev'.req
              /\ \/ Len(ev'.resps) = 1 /\ tasks' = tasks (-) SetToBag({t})
                 \/ /\ ev'.resps = <<>>
                    /\ \E u \in BagToSet(tasks') :
                         /\ u.req = t.req
                         /\ tasks' = (tasks (-) SetToBag({t})) (+) SetToBag({u}) ]_vars
  /\ (tasks # EmptyBag) ~> (tasks = EmptyBag /\ Len(ev.resps) = 1)

\* attachToGmail failed for want of a Gmail tab and the caller got the one response
C3_Witness ==
  /\ Internal(ev, "attachToGmail")
  /\ ev.at = "resume"
  /\ ev.resps = << [error |-> "No Gmail tab found"] >>
  /\ tasks = EmptyBag

\* the lookups of the batch that just took a step
Lookups == IF "lookups" \in DOMAIN ev.loc THEN ev.loc.lookups ELSE <<>>

NotFoundValue(email) == [found |-> FALSE, email |-> email]

\* the lookup's request got a response that is not a success and not a 404
FailedStatus(l) ==
  /\ l.pc = "done"
  /\ l.outcome.kind = "response"
  /\ l.outcome.status \notin 200..299
  /\ l.outcome.status # 404

\* C9: fetchPublicKey maps a 404 to {found: false, email} without error; for any
\* other response that is not a success its result carries an error, differs
\* from the 404 result, is not a found result, and reaches the caller as such.
C9_KeyFailureSurfaces ==
  Internal(ev, "fetchRecipientKeys")
  => /\ \A i \in DOMAIN Lookups :
          LET l == Lookups[i]
              email == ev.req.message.emails[i] IN
          /\ (l.pc = "done" /\ l.outcome.kind = "response" /\ l.outcome.status = 404)
               => l.result = NotFoundValue(email)
          /\ FailedStatus(l)
               => /\ l.result.found = FALSE
                  /\ "error" \in DOMAIN l.result
                  /\ Truthy(l.result.error)
                  /\ l.result # NotFoundValue(email)
     /\ ev.resps # <<>>
          => \A i \in DOMAIN Lookups :
               FailedStatus(Lookups[i])
                 => /\ "error" \in DOMAIN Resp.recipients[i]
                    /\ Resp.recipients[i].found = FALSE

\* a batch returned a 404 'not found' and a 500 failure side by side
C9_Witness ==
  /\ Internal(ev, "fetchRecipientKeys")
  /\ ev.resps = << [recipients |->
                     << [found |-> FALSE, email |-> "a@x.com"],
                        [found |-> FALSE, email |-> "b@x.com",
                         error |-> "Failed to fetch key for b@x.com"] >>] >>
  /\ Lookups[1].outcome = [kind |-> "response", status |-> 404]
  /\ Lookups[2].outcome = [kind |-> "response", status |-> 500]

\* C10: fetchRecipientKeys answers with a list as long as the input whose i-th
\* entry is the result of the lookup of the i-th email, in whatever order the
\* lookups end and whichever of them fail; the batch itself never fails.
C10_BatchKeepsOrder ==
  (Internal(ev, "fetchRecipientKeys") /\ ev.resps # <<>>)
  => LET emails == ev.req.message.emails IN
     /\ Len(ev.resps) = 1
     /\ DOMAIN Resp = {"recipients"}
     /\ Len(Resp.recipients) = Len(emails)
     /\ \A i \in DOMAIN emails :
          LET r == Resp.recipients[i]
              outcome == Lookups[i].outcome
              success == outcome.kind = "response" /\ outcome.status \in 200..299 IN
          /\ r.email = emails[i]
          /\ r.found <=> success
          /\ success => r.publicKey = outcome.body.publicKey
          /\ "error" \in DOMAIN r
               <=> ~success /\ ~(outcome.kind = "response" /\ outcome.status = 404)

\* the second lookup ended first and found its key, the first failed in
\* transport, and the answer lists them in the order of the request
C10_Witness ==
  /\ Internal(ev, "fetchRecipientKeys")
  /\ ev.req.message.emails = << "b@x.com", "a@x.com" >>
  /\ ev.loc.order = << 2, 1 >>
  /\ ev.resps = << [recipients |->
                     << [found |-> FALSE, email |-> "b@x.com", error |-> TransportError],
                        [found |-> TRUE, email |-> "a@x.com",
                         publicKey |-> "pk:a@x.com"] >>] >>

\* the operation behind the handler of the step e failed: saveFileMetadata
\* threw, attachToGmail found no Gmail tab, or the relay set lastError
OperationFailed(e) ==
  /\ e.at = "resume"
  /\ \/ Internal(e, "saveMetadata") /\ "err" \in DOMAIN e.loc
     \/ Internal(e, "attachToGmail") /\ "tabs" \in DOMAIN e.loc /\ e.loc.tabs = 0
     \/ Internal(e, "attachToGmail") /\ "lastError" \in DOMAIN e.loc

\* the message of the failure of the step e
FailureMessage(e) ==
  IF Internal(e, "saveMetadata") THEN e.loc.err
  ELSE IF e.loc.tabs = 0 THEN "No Gmail tab found"
  ELSE e.loc.lastError

\* C11: when the operation behind saveMetadata or attachToGmail fails (a response
\* that is not a success, no active Gmail tab, a relay error), the step answers
\* the caller with {error: <message>} and nothing else, the invocation ends
\* there, and the credential store is unchanged.
C11_FailureAnswered ==
  [][ OperationFailed(ev')
      => /\ ev'.resps = << [error |-> FailureMessage(ev')] >>
         /\ store' = store
         /\ \A t \in BagToSet(tasks') : t.req # ev'.req ]_vars

\* saveMetadata got a response that is not a success while a session is stored
C11_Witness ==
  /\ Internal(ev, "saveMetadata")
  /\ ev.resps = << [error |-> "Failed to save file metadata"] >>
  /\ store = storeAuth("t1", "a@x.com")

\* C12: an internal request whose action is not one of the eight handler names
\* invokes no handler, gets no response, and leaves the store and the
\* suspended invocations unchanged.
C12_UnknownIgnored ==
  [][ (ev'.req.chan = "internal" /\ ev'.req.message.action \notin HandlerNames)
      => /\ ev'.step = "router.nohandler"
         /\ ev'.resps = <<>>
         /\ store' = store
         /\ tasks' = tasks ]_vars

\* the stages of the file check, in their order, and the message of each
Stages == << "extension", "size", "brace", "parse", "schema" >>

StageMessage(stage) ==
  CASE stage = "extension" -> "Please select a .seal file. This file type is not supported."
    [] stage = "size" -> "This file is too large to open in the extension. Please use seal.email/viewer instead."
    [] stage = "brace" -> "This file is not a valid .seal file."
    [] stage = "parse" -> "Could not read this file. It may be corrupted."
    [] stage = "schema" -> "This file is not a valid .seal file. It may be corrupted or incomplete."

\* the file fails the stage, taken by itself
Fails(file, stage) ==
  CASE stage = "extension" -> file.name[Len(file.name)] # ".seal"
    [] stage = "size" -> file.size > 10485760
    [] stage = "brace" -> file.text = <<>> \/ file.text[1] # [t |-> "{"]
    [] stage = "parse" -> ~JSONParse(file.text).ok
    [] stage = "schema" ->
         \/ ~JSONParse(file.text).ok
         \/ JSONParse(file.text).value.type # "object"
         \/ {"version", "fileId", "payload"} \ DOMAIN JSONParse(file.text).value.props # {}

\* the number of the first stage that the file fails; 0 when it passes them all
FirstFailure(file) ==
  IF \E k \in 1..5 : Fails(file, Stages[k])
  THEN CHOOSE k \in 1..5 :
         Fails(file, Stages[k]) /\ \A j \in 1..(k - 1) : ~Fails(file, Stages[j])
  ELSE 0

\* the step is one of handleFile that had the text of the file, or needed none
FileStep == ev.req.chan = "popup" /\ ev.req.fn = "handleFile"

FileChecked ==
  /\ FileStep
  /\ ev.step # "handleFile.text"
  /\ ~("err" \in DOMAIN ev.loc /\ ev.loc.err = NotReadable)

\* C13: handleFile decides by the first failing stage in the order extension,
\* size, leading brace, parse, presence of version, fileId and payload: the
\* message shown is that of the first failing stage, the stages evaluated are
\* those up to it, nothing is retained; the info screen is reached and the
\* envelope retained only when no stage fails.
C13_FirstFailingStage ==
  /\ (FileStep /\ ev.step = "handleFile.text")
       => /\ ev.loc.stages = << "extension", "size" >>
          /\ FirstFailure(ev.req.arg) \notin {1, 2}
  /\ FileChecked
       => LET k == FirstFailure(ev.req.arg) IN
          /\ k # 0 => /\ popup.active = {"error"}
                      /\ popup.dom.errorMessage = StageMessage(Stages[k])
                      /\ ev.loc.stages = SubSeq(Stages, 1, k)
                      /\ popup.currentSealFile = Null
                      /\ popup.currentRawText = Null
          /\ ("info" \in popup.active \/ popup.currentSealFile # Null) => k = 0

\* a document without fileId is turned down at the last stage
C13_Witness ==
  /\ FileChecked
  /\ ev.req.arg.text = Doc(<< Member("version", JNum(1)), Member("payload", JStr("ct")) >>)
  /\ ev.loc.stages = Stages
  /\ popup.dom.errorMessage = MsgIncomplete
  /\ popup.active = {"error"}

\* displayFileInfo has just run to its end, for the envelope of the file
Displayed == FileStep /\ ev.step = "displayFileInfo"

Envelope == JSONParse(ev.req.arg.text).value

\* the envelope has an expiresAt, and what it denotes
HasExpiresAt(e) ==
  Get(e, "metadata").type = "object" /\ "expiresAt" \in DOMAIN Get(e, "metadata").props

ExpiresAt(e) == NewDate(Get(Get(e, "metadata"), "expiresAt"))

\* C14: for every valid envelope isExpired is true exactly when expiresAt is
\* present and denotes a time before the current time; it depends neither on
\* the recipients nor on the identity.
C14_ExpiredIffPast ==
  Displayed
  => (ev.loc.isExpired
        <=> /\ HasExpiresAt(Envelope)
            /\ ExpiresAt(Envelope).valid
            /\ ExpiresAt(Envelope).time < ev.loc.now)

\* the addresses that differ in letter case only
SameIgnoringCase(a, b) ==
  \E class \in { {"a@x.com", "A@X.com"}, {"b@x.com", "B@X.COM"} } : {a, b} \subseteq class

\* the recipients of the envelope: none when the list is absent
ListedRecipients(e) ==
  IF Get(e, "recipients").type = "array" THEN Get(e, "recipients").items ELSE <<>>

\* C15: for a valid envelope, when an identity is known the access row is shown
\* and hasAccess is true exactly when some recipient's email equals the
\* identity ignoring letter case; when no identity is known the access row is
\* hidden and hasAccess is false.
C15_AccessByIdentity ==
  Displayed
  => LET listed == ListedRecipients(Envelope)
         known == ev.loc.identity # Null IN
     /\ known
          => /\ popup.dom.accessRow.hidden = FALSE
             /\ ev.loc.hasAccess
                  <=> \E i \in DOMAIN listed :
                        SameIgnoringCase(listed[i].props.email.str, ev.loc.identity.str)
             /\ popup.dom.infoAccess =
                  IF ev.loc.hasAccess
                  THEN "<span class=\"access-granted\">Authorized</span>"
                  ELSE "<span class=\"access-denied\">Not a recipient</span>"
     /\ ~known
          => /\ popup.dom.accessRow.hidden = TRUE
             /\ ev.loc.hasAccess = FALSE

\* the identity A@X.com has access to a file whose one recipient is a@x.com
C15_Witness ==
  /\ Displayed
  /\ ev.loc.identity = JStr("A@X.com")
  /\ ListedRecipients(Envelope) = << Recipient("a@x.com") >>
  /\ ev.loc.hasAccess
  /\ popup.dom.accessRow.hidden = FALSE

\* the access row is shown: an identity was known at the load
AccessKnown == ~popup.dom.accessRow.hidden

\* C16: on the info screen the open action is disabled exactly when isExpired,
\* or accessKnown and not hasAccess; when both hold the label is that of the
\* expiry; otherwise the action is enabled.
C16_OpenDisabled ==
  (Displayed /\ "info" \in popup.active)
  => LET btn == popup.dom.btnOpenViewer
         denied == AccessKnown /\ ~ev.loc.hasAccess IN
     /\ btn.disabled <=> (ev.loc.isExpired \/ denied)
     /\ ev.loc.isExpired => btn.textContent = "File has expired"
     /\ (~ev.loc.isExpired /\ denied) => btn.textContent = "You are not a recipient"
     /\ ~btn.disabled => btn.textContent = "Open in Secure Viewer"

\* an expired file of which the identity is a recipient: disabled, 'File has expired'
C16_Witness ==
  /\ Displayed
  /\ "info" \in popup.active
  /\ ev.loc.isExpired
  /\ ev.loc.hasAccess
  /\ popup.dom.btnOpenViewer = [disabled |-> TRUE, textContent |-> "File has expired"]

\* the identity in the credential store
StoredIdentity == IF Truthy(store.userEmail) THEN JStr(store.userEmail) ELSE Null

\* C17: the verdict shown for a loaded file is computed against the identity
\* that is in the credential store at the time of that load, also when the
\* store was written after the popup's auth check or login.
C17_VerdictUsesStoredIdentity ==
  (FileStep /\ "identity" \in DOMAIN ev.loc) => ev.loc.identity = StoredIdentity

\* the edges of the screen machine
ScreenEdges ==
  { <<"loading", "login">>, <<"loading", "drop">>, <<"login", "drop">>,
    <<"drop", "login">>, <<"drop", "info">>, <<"drop", "error">>,
    <<"info", "drop">>, <<"error", "drop">> }

\* C18: exactly one of the screens loading, login, drop, info, error is active,
\* and the active screen changes only along the edges loading->login,
\* loading->drop, login->drop, drop->login, drop->info, drop->error, info->drop,
\* error->drop, in every interleaving of user events and pending results.
C18_ScreenEdges ==
  /\ [] (popup.active \in { {"loading"}, {"login"}, {"drop"}, {"info"}, {"error"} })
  /\ [][ popup'.active # popup.active
         => \E edge \in ScreenEdges :
              popup.active = {edge[1]} /\ popup'.active = {edge[2]} ]_vars

\* C19: back navigation from info or error ends on the drop screen with the
\* envelope and the raw text discarded; on the drop and login screens nothing
\* is retained, and the error screen never retains an envelope.
C19_NothingRetained ==
  /\ [][ (ev'.req.chan = "popup" /\ ev'.req.fn = "back")
         => /\ popup'.active = {"drop"}
            /\ popup'.currentSealFile = Null
            /\ popup'.currentRawText = Null ]_vars
  /\ [] ( (popup.active \cap {"drop", "login", "error"} # {})
            => popup.currentSealFile = Null )
  /\ [] ( (popup.active \cap {"drop", "login"} # {})
            => popup.currentRawText = Null )

\* handleLogout has just ended
LoggedOut(e) == e.req.chan = "popup" /\ e.req.fn = "handleLogout" /\ e.at = "resume"

\* the popup shows the login screen and holds no identity, envelope or raw text
OnLoginCleared(p) ==
  /\ p.active = {"login"}
  /\ p.userEmail = Null
  /\ p.currentSealFile = Null
  /\ p.currentRawText = Null

\* C20: a logout started by the user ends on the login screen with the cached
\* identity, the envelope and the raw text cleared, whether its request
\* succeeded or failed; a failure is not shown, and every logout that was
\* started does end.
C20_LogoutEnds ==
  /\ [][ LoggedOut(ev')
         => /\ OnLoginCleared(popup')
            /\ popup'.dom.errorMessage = popup.dom.errorMessage
            /\ popup'.dom.loginError = popup.dom.loginError ]_vars
  /\ (\E q \in BagToSet(popup.pending) : q.fn = "handleLogout")
       ~> (LoggedOut(ev) /\ OnLoginCleared(popup))

\* the logout request failed in transport and the popup is on the login screen
C20_Witness ==
  /\ LoggedOut(ev)
  /\ ev.loc = [rejected |-> PortClosed]
  /\ OnLoginCleared(popup)
  /\ store = storeAuth("t1", "a@x.com")

\* a step of the popup's file path: handleFile with displayFileInfo, the back
\* buttons, openInViewer
FilePathStep(e) ==
  e.req.chan = "popup" /\ e.req.fn \in {"handleFile", "back", "openInViewer"}

\* the store holds the two credential keys, each absent or a string of the
\* credential protocol
CredentialsOnly(st) ==
  /\ DOMAIN st = {"authToken", "userEmail"}
  /\ st.authToken \in Tokens \cup {Absent, ""}
  /\ st.userEmail \in Emails \cup {Absent}

\* C21: no step of the popup's file path (handleFile, displayFileInfo,
\* openInViewer, back navigation) writes to the persistent store: such a step
\* issues no storage operation and leaves the store as it was, and the store,
\* holding the session if there is one, only ever has the keys authToken and
\* userEmail and never the text or the envelope of a file
C21_FilePathLeavesStore ==
  /\ [](CredentialsOnly(store))
  /\ [][FilePathStep(ev') =>
          /\ store' = store
          /\ \A i \in DOMAIN ev'.ops : ev'.ops[i] \notin {"get", "set", "clear"}]_vars

\* a file was loaded, shown and handed to the viewer while a session is stored
C21_Witness ==
  /\ ev.req.chan = "popup"
  /\ ev.req.fn = "openInViewer"
  /\ ev.step = "openInViewer.tab"
  /\ ev.loc.download.blob # Null
  /\ popup.currentRawText # Null
  /\ store = storeAuth("t1", "a@x.com")

\* the step just taken is the clearAuth of a logout: messageHandlers.logout
\* or an allow-listed SEAL_LOGOUT
LogoutCleared ==
  ev.step \in {"logout.clearAuth", "ext.logout.clear"} /\ store = clearAuth

\* the writes of a successful loginWithCredentials and of a SEAL_AUTH_TOKEN handoff
SignInWrites == {"login.storeAuth", "ext.token.store"}

\* C22: logout is not undone by a request in flight: when a logout (internal
\* or SEAL_LOGOUT) has just cleared the store, the store stays empty unless
\* the step that writes it is the storeAuth of a successful
\* loginWithCredentials or of a SEAL_AUTH_TOKEN handoff; a checkAuth that was
\* in flight across the logout writes neither the old token nor an email
C22_LogoutNotUndone ==
  [][(LogoutCleared /\ store' # clearAuth) => ev'.step \in SignInWrites]_vars
====
